---- MODULE Spec2Model ----
(***************************************************************************)
(* image_encryptor.py: passphrase-seeded pixel permutation composed with a *)
(* keystream XOR, and the file helpers, CLI and GUI handlers around it.    *)
(*                                                                         *)
(* Representation.  A str is the sequence of its code points; a bytes      *)
(* object and a uint8 array are sequences of 0..255; a numpy index array   *)
(* keeps the code's 0-based values.  A 64-bit unsigned int is the sequence *)
(* of its four 16-bit limbs, most significant first, so that no value      *)
(* exceeds TLC's integer range.  A call that may raise returns             *)
(* [exc, val]: exc = "" for a normal return.                               *)
(*                                                                         *)
(* hashlib.sha256 is tabulated with its real values on the inputs the      *)
(* model draws.  numpy's RandomState is an oracle: what a seed yields for  *)
(* a given n is drawn once and remembered, so equal (seed, n) always give  *)
(* equal output, and nothing else is assumed about it.                     *)
(***************************************************************************)
EXTENDS Integers, Sequences, FiniteSets, TLC

VARIABLES
  given, buffer, pc, encKey, decKey, enc, dec,   \* a caller of the byte functions
  rsPermutation, rsRandint,                       \* what RandomState has answered
  fs, dirs,                                       \* the file system
  call, prevCall, fsBefore, dirsBefore, ncalls,   \* the last two file-level calls
  stdout, exitCode, status_label                  \* what the CLI and the GUI show

byteVars == <<given, buffer, pc, encKey, decKey, enc, dec>>

fileVars == <<fs, dirs, call, prevCall, fsBefore, dirsBefore, ncalls,
              stdout, exitCode, status_label>>

vars == <<byteVars, rsPermutation, rsRandint, fileVars>>

\* ---------------------------------------------------------------- bounds
MaxLen == 3

MaxCalls == 2

\* ------------------------------------------------------------ exceptions
Ok(v) == [exc |-> "", val |-> v]

Raise(e) == [exc |-> e, val |-> <<>>]

\* --------------------------------------------------------------- strings
Perm == <<112, 101, 114, 109>>

Xor == <<120, 111, 114>>

\* "hkkzkvd"
Key_hkkzkvd == <<104, 107, 107, 122, 107, 118, 100>>

\* "cl\u00e931859"
Key_cle31859 == <<99, 108, 233, 51, 49, 56, 53, 57>>

\* "cl\u00e941698"
Key_cle41698 == <<99, 108, 233, 52, 49, 54, 57, 56>>

\* "test123"
Key_test123 == <<116, 101, 115, 116, 49, 50, 51>>

Passphrases == {Key_hkkzkvd, Key_cle31859, Key_cle41698}

FileKeys == {Key_test123}

\* str.encode("utf-8") of one code point
EncodeCodePoint(c) ==
  IF c < 128 THEN <<c>>
  ELSE IF c < 2048 THEN <<192 + (c \div 64), 128 + (c % 64)>>
  ELSE IF c < 65536
    THEN <<224 + (c \div 4096), 128 + ((c \div 64) % 64), 128 + (c % 64)>>
    ELSE <<240 + (c \div 262144), 128 + ((c \div 4096) % 64),
           128 + ((c \div 64) % 64), 128 + (c % 64)>>

RECURSIVE Utf8(_)
Utf8(s) == IF s = <<>> THEN <<>> ELSE EncodeCodePoint(Head(s)) \o Utf8(Tail(s))

\* the first 8 bytes of hashlib.sha256(data).digest(), computed with hashlib
Sha256Head ==
  <<104, 107, 107, 122, 107, 118, 100>> :> <<33, 31, 128, 127, 137, 13, 81, 69>> @@
  <<112, 101, 114, 109, 104, 107, 107, 122, 107, 118, 100>> :> <<76, 125, 153, 231, 83, 190, 178, 136>> @@
  <<120, 111, 114, 104, 107, 107, 122, 107, 118, 100>> :> <<118, 217, 151, 52, 83, 190, 178, 136>> @@
  <<99, 108, 195, 169, 51, 49, 56, 53, 57>> :> <<250, 102, 240, 82, 209, 234, 150, 71>> @@
  <<112, 101, 114, 109, 99, 108, 195, 169, 51, 49, 56, 53, 57>> :> <<71, 191, 221, 213, 105, 108, 190, 153>> @@
  <<120, 111, 114, 99, 108, 195, 169, 51, 49, 56, 53, 57>> :> <<63, 88, 109, 107, 137, 20, 211, 9>> @@
  <<99, 108, 195, 169, 52, 49, 54, 57, 56>> :> <<139, 227, 253, 20, 229, 182, 126, 100>> @@
  <<112, 101, 114, 109, 99, 108, 195, 169, 52, 49, 54, 57, 56>> :> <<214, 11, 105, 137, 105, 108, 190, 153>> @@
  <<120, 111, 114, 99, 108, 195, 169, 52, 49, 54, 57, 56>> :> <<27, 162, 50, 96, 1, 254, 251, 56>> @@
  <<116, 101, 115, 116, 49, 50, 51>> :> <<236, 215, 24, 112, 209, 150, 51, 22>> @@
  <<112, 101, 114, 109, 116, 101, 115, 116, 49, 50, 51>> :> <<16, 246, 18, 210, 255, 27, 149, 22>> @@
  <<120, 111, 114, 116, 101, 115, 116, 49, 50, 51>> :> <<232, 21, 152, 208, 159, 72, 166, 119>>

\* Variant: the salt is left out of the hashed string.
HashInput_Unsalted(s, salt) == Utf8(s)

\* h = hashlib.sha256((salt + s).encode("utf-8")).digest()
HashInput(s, salt) == Utf8(salt \o s)

\* int.from_bytes(b, byteorder="big", signed=False) of 8 bytes, as 16-bit limbs
FromBytesBig(b) == [i \in 1..(Len(b) \div 2) |-> b[2 * i - 1] * 256 + b[2 * i]]

sha256_to_int(s, salt) == FromBytesBig(SubSeq(Sha256Head[HashInput(s, salt)], 1, 8))

\* sha256_to_int is a pure function: its values for the two salts and the
\* passphrases in use, computed once.
SeedOf ==
  [salt \in {Perm, Xor} |->
     [s \in Passphrases \cup FileKeys |-> sha256_to_int(s, salt)]]

\* Variant: the seed is handed on without the reduction.
Mod2Pow32_Unreduced(x) == x

\* x % (2**32): 2**32 is two 16-bit limbs
Mod2Pow32(x) == [i \in 1..Len(x) |-> IF i <= Len(x) - 2 THEN 0 ELSE x[i]]

\* ----------------------------------------------------------------- numpy
RECURSIVE BitXor(_, _)
BitXor(a, b) ==
  IF a = 0 THEN b
  ELSE IF b = 0 THEN a
  ELSE ((a + b) % 2) + 2 * BitXor(a \div 2, b \div 2)

\* np.bitwise_xor(a, b) of two 1-D arrays, with numpy's broadcasting of a
\* length-1 operand
bitwise_xor(a, b) ==
  IF Len(a) = Len(b) THEN Ok([i \in 1..Len(a) |-> BitXor(a[i], b[i])])
  ELSE IF Len(b) = 1 THEN Ok([i \in 1..Len(a) |-> BitXor(a[i], b[1])])
  ELSE IF Len(a) = 1 THEN Ok([i \in 1..Len(b) |-> BitXor(a[1], b[i])])
  ELSE Raise("ValueError")

\* arr[idx] with an integer index array: a gather into a new array
\* (negative indices count from the end)
Gather(arr, idx) ==
  IF \A i \in 1..Len(idx) : idx[i] >= -Len(arr) /\ idx[i] < Len(arr)
    THEN Ok([i \in 1..Len(idx) |->
               arr[(IF idx[i] < 0 THEN idx[i] + Len(arr) ELSE idx[i]) + 1]])
    ELSE Raise("IndexError")

\* np.arange(n)
arange(n) == [i \in 1..n |-> i - 1]

\* target[idx] = vals on a copy of target: the last write to a slot wins
Scatter(target, idx, vals) ==
  IF ~(\A i \in 1..Len(idx) : idx[i] >= -Len(target) /\ idx[i] < Len(target))
    THEN Raise("IndexError")
  ELSE IF Len(vals) # Len(idx) /\ Len(vals) # 1 THEN Raise("ValueError")
  ELSE LET slot(i) == (IF idx[i] < 0 THEN idx[i] + Len(target) ELSE idx[i]) + 1
           src(i) == IF Len(vals) = 1 THEN vals[1] ELSE vals[i]
           hits(j) == {i \in 1..Len(idx) : slot(i) = j}
           last(j) == CHOOSE i \in hits(j) : \A k \in hits(j) : k <= i
       IN Ok([j \in 1..Len(target) |->
                IF hits(j) = {} THEN target[j] ELSE src(last(j))])

\* np.random.RandomState(seed): a seed outside [0, 2**32) is refused
RandomState(seed) ==
  IF \A i \in 1..(Len(seed) - 2) : seed[i] = 0 THEN Ok(seed) ELSE Raise("ValueError")

\* What the library yields: lib.permutation and lib.randint hold the outputs
\* already produced, keyed by <<seed, n>>; lib.p and lib.ks are the outputs
\* of a pair not seen before.
Lookup(memo, k, fresh) == IF k \in DOMAIN memo THEN memo[k] ELSE fresh

\* ------------------------------------------------------- core algorithms
\* rng = np.random.RandomState(seed % (2**32)) and the one request made of
\* rng; arg is the value handed to RandomState, memo the outputs the library
\* produced so far, fresh its output for a pair not seen before
Drawn(seed, arg, memo, fresh, n) ==
  IF RandomState(arg).exc # ""
    THEN [exc |-> RandomState(arg).exc, val |-> <<>>, seed |-> seed, arg |-> arg]
    ELSE [exc |-> "", val |-> Lookup(memo, <<RandomState(arg).val, n>>, fresh),
          seed |-> seed, arg |-> arg]

Seeded(seed, memo, fresh, n) == Drawn(seed, Mod2Pow32(seed), memo, fresh, n)

generate_permutation(n, key, lib) ==
  Seeded(SeedOf[Perm][key], lib.permutation, lib.p, n)

generate_keystream(n, key, lib) ==
  Seeded(SeedOf[Xor][key], lib.randint, lib.ks, n)

\* A call that was not reached because an earlier one raised.
NotCalled == [exc |-> "not called", val |-> <<>>, seed |-> <<>>, arg |-> <<>>]

\* The first exception among the steps, or the last step's result.
Sequenced(first, second, last) ==
  IF first.exc # "" THEN Raise(first.exc)
  ELSE IF second.exc # "" THEN Raise(second.exc)
  ELSE last

\* Variant: XOR with the keystream first, gather afterwards.
XorThenGather(arr_bytes, perm, keystream, xored) ==
  Sequenced(perm, keystream,
            IF xored.exc # "" THEN xored ELSE Gather(xored.val, perm.val))
    @@ [arr_bytes |-> arr_bytes, perm |-> perm, keystream |-> keystream]

encrypt_bytes_XorFirst(arr_bytes, key, lib) ==
  XorThenGather(arr_bytes,
                generate_permutation(Len(arr_bytes), key, lib),
                generate_keystream(Len(arr_bytes), key, lib),
                bitwise_xor(arr_bytes, generate_keystream(Len(arr_bytes), key, lib).val))

\* permuted = arr_bytes[perm]; encrypted = np.bitwise_xor(permuted, keystream)
GatherThenXor(arr_bytes, perm, keystream, permuted) ==
  Sequenced(perm, keystream,
            IF permuted.exc # "" THEN permuted
            ELSE bitwise_xor(permuted.val, keystream.val))
    @@ [arr_bytes |-> arr_bytes, perm |-> perm, keystream |-> keystream]

\* perm, then keystream unless perm raised, then the gather
Permuted(arr_bytes, perm, keystream) ==
  GatherThenXor(arr_bytes, perm, IF perm.exc # "" THEN NotCalled ELSE keystream,
                Gather(arr_bytes, perm.val))

\* The returned record carries, beside the result, the locals of the call and
\* the argument array as the call leaves it.
encrypt_bytes(arr_bytes, key, lib) ==
  Permuted(arr_bytes,
           generate_permutation(Len(arr_bytes), key, lib),
           generate_keystream(Len(arr_bytes), key, lib))

\* Variant: the permutation is used as its own inverse.
InvertPermutation_NotInverted(perm, n, junk) == Ok(perm)

\* Variant: the inverse holds 1-based positions.
InvertPermutation_OneBased(perm, n, junk) ==
  Scatter([i \in 1..Len(perm) |-> junk], perm, [i \in 1..n |-> i])

\* inv_perm = np.empty_like(perm); inv_perm[perm] = np.arange(n)
\* junk: the uninitialised content of np.empty_like(perm)
InvertPermutation(perm, n, junk) ==
  Scatter([i \in 1..Len(perm) |-> junk], perm, arange(n))

\* Variant: the permutation is undone before the XOR.
UnpermuteThenXor(enc_bytes, keystream, perm, inv_perm, unpermuted) ==
  Sequenced(keystream, perm,
            IF unpermuted.exc # "" THEN unpermuted
            ELSE bitwise_xor(unpermuted.val, keystream.val))
    @@ [enc_bytes |-> enc_bytes, perm |-> perm, keystream |-> keystream,
        inv_perm |-> inv_perm]

UnpermuteFirst(enc_bytes, keystream, perm, inv_perm) ==
  UnpermuteThenXor(enc_bytes, keystream, perm, inv_perm,
                   IF inv_perm.exc # "" THEN inv_perm
                   ELSE Gather(enc_bytes, inv_perm.val))

decrypt_bytes_UnpermuteFirst(enc_bytes, key, lib, junk) ==
  UnpermuteFirst(enc_bytes,
                 generate_keystream(Len(enc_bytes), key, lib),
                 generate_permutation(Len(enc_bytes), key, lib),
                 InvertPermutation(generate_permutation(Len(enc_bytes), key, lib).val,
                                   Len(enc_bytes), junk))

\* original = permuted[inv_perm]
Unpermuted(enc_bytes, keystream, permuted, perm, inv_perm) ==
  Sequenced(keystream, permuted,
            IF perm.exc # "" THEN Raise(perm.exc)
            ELSE IF inv_perm.exc # "" THEN inv_perm
            ELSE Gather(permuted.val, inv_perm.val))
    @@ [enc_bytes |-> enc_bytes, perm |-> perm, keystream |-> keystream,
        inv_perm |-> inv_perm]

\* perm unless an earlier step raised, then inv_perm
Inverted(enc_bytes, keystream, permuted, perm, junk) ==
  Unpermuted(enc_bytes, keystream, permuted, perm,
             IF perm.exc # "" THEN Raise(perm.exc)
             ELSE InvertPermutation(perm.val, Len(enc_bytes), junk))

\* keystream, then permuted = np.bitwise_xor(enc_bytes, keystream)
Xored(enc_bytes, keystream, perm, junk) ==
  Inverted(enc_bytes, keystream,
           IF keystream.exc # "" THEN Raise(keystream.exc)
           ELSE bitwise_xor(enc_bytes, keystream.val),
           IF keystream.exc # "" \/ bitwise_xor(enc_bytes, keystream.val).exc # ""
             THEN NotCalled ELSE perm,
           junk)

decrypt_bytes(enc_bytes, key, lib, junk) ==
  Xored(enc_bytes,
        generate_keystream(Len(enc_bytes), key, lib),
        generate_permutation(Len(enc_bytes), key, lib),
        junk)

\* --------------------------------------------------- the library's draws
\* Input buffers: a constant one, one of all-ones bytes, one of distinct bytes.
BuffersOf(n) ==
  {[i \in 1..n |-> 66], [i \in 1..n |-> 255], [i \in 1..n |-> (53 * i) % 256]}

Buffers == UNION {BuffersOf(n) : n \in 0..MaxLen}

IsPermutation(f, n) ==
  /\ Len(f) = n
  /\ \A i \in 1..n : f[i] \in 0..(n - 1)
  /\ \A i, j \in 1..n : f[i] = f[j] => i = j

PermutationTable ==
  [n \in 0..MaxLen |-> {f \in [1..n -> 0..(n - 1)] : IsPermutation(f, n)}]

PermutationsOf(n) == PermutationTable[n]

Keystreams(n) ==
  {[i \in 1..n |-> 0], [i \in 1..n |-> (90 + 37 * i) % 256]}

JunkValues == {0, 7}

Remember(memo, g, n) ==
  IF g.exc = "" THEN (<<g.arg, n>> :> g.val) @@ memo ELSE memo

\* The library as it has answered so far: generate_permutation and
\* generate_keystream recomputed from a passphrase and n.
Answered == [permutation |-> rsPermutation, randint |-> rsRandint,
             p |-> <<>>, ks |-> <<>>]

PiOf(key, n) == generate_permutation(n, key, Answered).val

KeystreamOf(key, n) == generate_keystream(n, key, Answered).val

\* What the library may answer to the two requests of a call with this
\* passphrase and n: what it answered before, or any output if it was not
\* asked before.
DrawsOf(memo, k, outputs) == IF k \in DOMAIN memo THEN {memo[k]} ELSE outputs

LibraryDraws(key, n) ==
  {[permutation |-> rsPermutation, randint |-> rsRandint, p |-> p, ks |-> ks] :
     p \in DrawsOf(rsPermutation, <<generate_permutation(n, key, Answered).arg, n>>,
                   PermutationsOf(n)),
     ks \in DrawsOf(rsRandint, <<generate_keystream(n, key, Answered).arg, n>>,
                    Keystreams(n))}

NoEncrypt == [exc |-> "not called", val |-> <<>>, arr_bytes |-> <<>>,
              perm |-> NotCalled, keystream |-> NotCalled]

NoDecrypt == [exc |-> "not called", val |-> <<>>, enc_bytes |-> <<>>,
              perm |-> NotCalled, keystream |-> NotCalled,
              inv_perm |-> Raise("not called")]

\* ---------------------------------------------- files and OpenCV's codec
\* A path is its directory, its stem and its extension.
In_png == [dir |-> "", stem |-> "in", ext |-> ".png"]

Notes_txt == [dir |-> "", stem |-> "notes", ext |-> ".txt"]

Out_enc_png == [dir |-> "out", stem |-> "enc", ext |-> ".png"]

Enc_jpg == [dir |-> "", stem |-> "enc", ext |-> ".jpg"]

Ro_enc_png == [dir |-> "ro", stem |-> "enc", ext |-> ".png"]

Sealed_enc_png == [dir |-> "sealed/sub", stem |-> "enc", ext |-> ".png"]

InputPaths == {In_png, Notes_txt, Out_enc_png, Enc_jpg}

OutputPaths == {Out_enc_png, Enc_jpg, Ro_enc_png, Sealed_enc_png}

Paths == InputPaths \cup OutputPaths

\* The directories that exist at the start; "ro" and "sealed" are read-only,
\* so nothing can be written in "ro" and "sealed/sub" cannot be made.
InitialDirs == {".", "ro", "sealed"}

WritableDirs == {".", "out"}

CreatableDirs == {"out"}

Absent == [fmt |-> "absent", dtype |-> "", pixels |-> <<>>]

\* in.png holds an image, notes.txt holds text, no other file exists yet.
InitialFiles(img) ==
  [p \in Paths |->
     IF p = In_png THEN [fmt |-> "png", dtype |-> "uint8", pixels |-> img]
     ELSE IF p = Notes_txt THEN [fmt |-> "text", dtype |-> "", pixels |-> <<>>]
     ELSE Absent]

\* A single-channel image, as rows of pixels: 2 x 1.
Images == {<<<<10>>, <<200>>>>}

None == [none |-> TRUE, dtype |-> "", pixels |-> <<>>]

\* cv2.imread(path, cv2.IMREAD_UNCHANGED): None for a missing or undecodable file
imread(fsys, path) ==
  IF fsys[path].fmt \in {"png", "jpg"}
    THEN [none |-> FALSE, dtype |-> fsys[path].dtype, pixels |-> fsys[path].pixels]
    ELSE None

\* What decoding gives back after a lossy encoder wrote img.
LossyOutcomes == {"exact", "altered"}

Requantized(img, q) ==
  IF q = "exact" THEN img
  ELSE [r \in 1..Len(img) |->
          [c \in 1..Len(img[r]) |->
             IF img[r][c] < 128 THEN img[r][c] + 1 ELSE img[r][c] - 1]]

\* cv2.imwrite(path, img): the extension picks the encoder; False, and no
\* file, when the file cannot be opened for writing
imwrite(fsys, ds, path, dtype, img, q) ==
  LET d == IF path.dir = "" THEN "." ELSE path.dir
  IN IF path.ext \notin {".png", ".jpg"}
       THEN [exc |-> "cv2.error", ret |-> FALSE, fs |-> fsys]
     ELSE IF d \notin ds \/ d \notin WritableDirs
       THEN [exc |-> "", ret |-> FALSE, fs |-> fsys]
     ELSE IF path.ext = ".png"
       THEN [exc |-> "", ret |-> TRUE,
             fs |-> [fsys EXCEPT ![path] =
                       [fmt |-> "png", dtype |-> dtype, pixels |-> img]]]
     ELSE [exc |-> "", ret |-> TRUE,
           fs |-> [fsys EXCEPT ![path] =
                     [fmt |-> "jpg", dtype |-> dtype, pixels |-> Requantized(img, q)]]]

\* os.makedirs(d, exist_ok=True)
makedirs(ds, d) ==
  IF d \in ds THEN Ok(ds)
  ELSE IF d \in CreatableDirs THEN Ok(ds \cup {d})
  ELSE Raise("PermissionError")

\* img.shape of a 2-D array
ShapeOf(img) == <<Len(img), IF Len(img) = 0 THEN 0 ELSE Len(img[1])>>

RECURSIVE flatten(_)
flatten(img) == IF img = <<>> THEN <<>> ELSE Head(img) \o flatten(Tail(img))

\* bytes_flat.reshape(shape)
reshape(flat, shape) ==
  IF Len(flat) # shape[1] * shape[2] THEN Raise("ValueError")
  ELSE Ok([r \in 1..shape[1] |->
             [c \in 1..shape[2] |-> flat[(r - 1) * shape[2] + c]]])

\* ---------------------------------------------------------- file helpers
\* Variant: an image that could not be read is taken as an empty one.
read_image_as_bytes_Unchecked(fsys, path) ==
  [exc |-> "", img |-> imread(fsys, path).pixels,
   shape |-> ShapeOf(imread(fsys, path).pixels), dtype |-> imread(fsys, path).dtype]

read_image_as_bytes(fsys, path) ==
  IF imread(fsys, path).none
    THEN [exc |-> "FileNotFoundError", img |-> <<>>, shape |-> <<>>, dtype |-> ""]
    ELSE [exc |-> "", img |-> imread(fsys, path).pixels,
          shape |-> ShapeOf(imread(fsys, path).pixels),
          dtype |-> imread(fsys, path).dtype]

\* wrote: what cv2.imwrite returned, which the code drops
Written(made, written) ==
  [exc |-> written.exc, fs |-> written.fs, dirs |-> made.val, wrote |-> written.ret]

Reshaped(fsys, ds, img, made, dtype, out_path, q) ==
  IF img.exc # "" THEN [exc |-> img.exc, fs |-> fsys, dirs |-> ds, wrote |-> FALSE]
  ELSE IF made.exc # "" THEN [exc |-> made.exc, fs |-> fsys, dirs |-> ds, wrote |-> FALSE]
  ELSE Written(made, imwrite(fsys, made.val, out_path, dtype, img.val, q))

save_bytes_as_image(fsys, ds, bytes_flat, shape, dtype, out_path, q) ==
  Reshaped(fsys, ds, reshape(bytes_flat, shape),
           makedirs(ds, IF out_path.dir = "" THEN "." ELSE out_path.dir),
           dtype, out_path, q)

\* ------------------------------------------------- high-level functions
\* The returned record carries the file system and the library's answers as
\* the call leaves them, the image read and the flat array handed to save.
Failed(e, fsys, ds, lib, img) ==
  [exc |-> e, fs |-> fsys, dirs |-> ds, permutation |-> lib.permutation,
   randint |-> lib.randint, img |-> img, dtype |-> "", flat |-> <<>>,
   wrote |-> FALSE]

\* rd: what read_image_as_bytes returned; out: what encrypt_bytes or
\* decrypt_bytes returned; saved: what save_bytes_as_image returned
Saved(lib, rd, out, saved) ==
  [exc |-> saved.exc, fs |-> saved.fs, dirs |-> saved.dirs,
   permutation |-> Remember(lib.permutation, out.perm, Len(flatten(rd.img))),
   randint |-> Remember(lib.randint, out.keystream, Len(flatten(rd.img))),
   img |-> rd.img, dtype |-> rd.dtype, flat |-> out.val, wrote |-> saved.wrote]

\* The statements after the bytes were transformed: save_bytes_as_image,
\* unless an exception already left the function
Transformed(fsys, ds, lib, rd, out, output_path, q) ==
  IF rd.exc # "" THEN Failed(rd.exc, fsys, ds, lib, <<>>)
  ELSE IF out.exc # ""
    THEN Saved(lib, rd, out, [exc |-> out.exc, fs |-> fsys, dirs |-> ds, wrote |-> FALSE])
  ELSE Saved(lib, rd, out,
             save_bytes_as_image(fsys, ds, out.val, rd.shape, rd.dtype, output_path, q))

encrypt_image_file(fsys, ds, input_path, output_path, key, lib, q) ==
  Transformed(fsys, ds, lib, read_image_as_bytes(fsys, input_path),
              encrypt_bytes(flatten(read_image_as_bytes(fsys, input_path).img), key, lib),
              output_path, q)

decrypt_image_file(fsys, ds, input_path, output_path, key, lib, junk, q) ==
  Transformed(fsys, ds, lib, read_image_as_bytes(fsys, input_path),
              decrypt_bytes(flatten(read_image_as_bytes(fsys, input_path).img), key, lib,
                            junk),
              output_path, q)

\* ------------------------------------------------------------ byte level
NoFileCall == [frontend |-> "none", op |-> "none", input |-> <<>>, output |-> <<>>,
               key |-> <<>>, exc |-> "not called", img |-> <<>>, dtype |-> "",
               flat |-> <<>>, wrote |-> FALSE]

\* given: the value the caller built the array with; buffer: the array object
\* the caller holds, as the calls leave it.
Init ==
  /\ given \in Buffers
  /\ buffer = given
  /\ pc = "input"
  /\ encKey = <<>>
  /\ decKey = <<>>
  /\ enc = NoEncrypt
  /\ dec = NoDecrypt
  /\ rsPermutation = <<>>
  /\ rsRandint = <<>>
  /\ fs = InitialFiles(<<<<0>>>>)
  /\ dirs = InitialDirs
  /\ call = NoFileCall
  /\ prevCall = NoFileCall
  /\ fsBefore = fs
  /\ dirsBefore = dirs
  /\ ncalls = 0
  /\ stdout = <<>>
  /\ exitCode = 0
  /\ status_label = ""

EncryptBytes(key) ==
  /\ pc = "input"
  /\ \E lib \in LibraryDraws(key, Len(buffer)) :
       \E r \in {encrypt_bytes(buffer, key, lib)} :
          /\ enc' = r
          /\ rsPermutation' = Remember(rsPermutation, r.perm, Len(buffer))
          /\ rsRandint' = Remember(rsRandint, r.keystream, Len(buffer))
          /\ buffer' = r.arr_bytes
  /\ encKey' = key
  /\ pc' = "encrypted"
  /\ UNCHANGED <<given, decKey, dec, fileVars>>

DecryptBytes(key) ==
  /\ pc = "encrypted"
  /\ enc.exc = ""
  /\ \E lib \in LibraryDraws(key, Len(enc.val)), junk \in JunkValues :
       \E r \in {decrypt_bytes(enc.val, key, lib, junk)} :
          /\ dec' = r
          /\ rsPermutation' = Remember(rsPermutation, r.perm, Len(enc.val))
          /\ rsRandint' = Remember(rsRandint, r.keystream, Len(enc.val))
  /\ decKey' = key
  /\ pc' = "decrypted"
  /\ UNCHANGED <<given, buffer, encKey, enc, fileVars>>

Next == \E key \in Passphrases : EncryptBytes(key) \/ DecryptBytes(key)

Spec == Init /\ [][Next]_vars

\* ------------------------------------------------------------ file level
FileInit ==
  /\ given = <<>>
  /\ buffer = <<>>
  /\ pc = "files"
  /\ encKey = <<>>
  /\ decKey = <<>>
  /\ enc = NoEncrypt
  /\ dec = NoDecrypt
  /\ rsPermutation = <<>>
  /\ rsRandint = <<>>
  /\ \E img \in Images : fs = InitialFiles(img)
  /\ dirs = InitialDirs
  /\ call = NoFileCall
  /\ prevCall = NoFileCall
  /\ fsBefore = fs
  /\ dirsBefore = dirs
  /\ ncalls = 0
  /\ stdout = <<>>
  /\ exitCode = 0
  /\ status_label = ""

\* The library's possible answers for the image at input.
FileDraws(input, key) ==
  LibraryDraws(key, Len(flatten(read_image_as_bytes(fs, input).img)))

\* The encoder and np.empty_like have an outcome to choose only in a call that
\* reaches them: one that read its input.
EncoderDraws(input, output) ==
  IF read_image_as_bytes(fs, input).exc = "" /\ output.ext = ".jpg"
    THEN LossyOutcomes ELSE {"exact"}

JunkDraws(mode, input) ==
  IF read_image_as_bytes(fs, input).exc = "" /\ mode = "decrypt"
    THEN JunkValues ELSE {0}

\* One run of a high-level function from a frontend; r is what it returned.
Called(frontend, op, input, output, key, r) ==
  /\ fs' = r.fs
  /\ dirs' = r.dirs
  /\ rsPermutation' = r.permutation
  /\ rsRandint' = r.randint
  /\ call' = [frontend |-> frontend, op |-> op, input |-> input, output |-> output,
              key |-> key, exc |-> r.exc, img |-> r.img, dtype |-> r.dtype,
              flat |-> r.flat, wrote |-> r.wrote]
  /\ prevCall' = call
  /\ fsBefore' = fs
  /\ dirsBefore' = dirs
  /\ ncalls' = ncalls + 1
  /\ UNCHANGED byteVars

\* cli(): an exception leaves through the interpreter, which exits with 1
Cli(mode, input, output, key) ==
  /\ ncalls < MaxCalls
  /\ \E lib \in FileDraws(input, key), junk \in JunkDraws(mode, input),
        q \in EncoderDraws(input, output) :
       \E r \in {IF mode = "encrypt"
                  THEN encrypt_image_file(fs, dirs, input, output, key, lib, q)
                  ELSE decrypt_image_file(fs, dirs, input, output, key, lib, junk, q)} :
          /\ Called("cli", mode, input, output, key, r)
          /\ stdout' = IF r.exc # "" THEN <<>>
                       ELSE IF mode = "encrypt" THEN <<"Encrypted -> ", output>>
                       ELSE <<"Decrypted -> ", output>>
          /\ exitCode' = IF r.exc = "" THEN 0 ELSE 1
  /\ UNCHANGED status_label

\* launch_gui.run_encrypt
RunEncrypt(input, output, key) ==
  /\ ncalls < MaxCalls
  /\ \E lib \in FileDraws(input, key), q \in EncoderDraws(input, output) :
       \E r \in {encrypt_image_file(fs, dirs, input, output, key, lib, q)} :
          /\ Called("gui", "encrypt", input, output, key, r)
          /\ status_label' = IF r.exc = "" THEN "Encryption completed."
                             ELSE "Error: " \o r.exc
  /\ UNCHANGED <<stdout, exitCode>>

\* launch_gui.run_decrypt
RunDecrypt(input, output, key) ==
  /\ ncalls < MaxCalls
  /\ \E lib \in FileDraws(input, key), junk \in JunkDraws("decrypt", input),
        q \in EncoderDraws(input, output) :
       \E r \in {decrypt_image_file(fs, dirs, input, output, key, lib, junk, q)} :
          /\ Called("gui", "decrypt", input, output, key, r)
          /\ status_label' = IF r.exc = "" THEN "Decryption completed."
                             ELSE "Error: " \o r.exc
  /\ UNCHANGED <<stdout, exitCode>>

FileNext ==
  \E input \in InputPaths, output \in OutputPaths, key \in FileKeys :
    \/ \E mode \in {"encrypt", "decrypt"} : Cli(mode, input, output, key)
    \/ RunEncrypt(input, output, key)
    \/ RunDecrypt(input, output, key)

FileSpec == FileInit /\ [][FileNext]_vars

\* ------------------------------------------------- byte-level properties
\* f[f[i]] = i for every position: the permutation is its own inverse
SelfInverse(f) == \A i \in 1..Len(f) : f[f[i] + 1] = i - 1

Varied(f) == \E i, j \in 1..Len(f) : f[i] # f[j]

\* C1: decrypt_bytes(encrypt_bytes(b, k), k) = b byte for byte, for every
\* buffer b (the empty and the one-byte buffer included) and passphrase k.
C1_RoundTrip ==
  /\ pc # "input" => enc.exc = ""
  /\ (pc = "decrypted" /\ decKey = encKey) => (dec.exc = "" /\ dec.val = given)

C1_Witness ==
  /\ pc = "decrypted"
  /\ decKey = encKey
  /\ Len(buffer) = MaxLen
  /\ Varied(buffer)
  /\ ~SelfInverse(enc.perm.val)
  /\ enc.val # given
  /\ dec.val = given

\* C2: encrypt_bytes returns n elements with output[i] = buffer[pi[i]] XOR k[i]
\* for pi and k recomputed from n and the passphrase, and leaves its input
\* buffer as it was.
EncryptedAsSpecified ==
  LET n == Len(given)
      pi == PiOf(encKey, n)
      k == KeystreamOf(encKey, n)
  IN /\ enc.exc = ""
     /\ Len(enc.val) = n
     /\ \A i \in 0..(n - 1) : enc.val[i + 1] = BitXor(given[pi[i + 1] + 1], k[i + 1])

C2_EncryptGathersThenXors ==
  pc # "input" => (buffer = given /\ EncryptedAsSpecified)

C2_Witness ==
  /\ pc = "encrypted"
  /\ Len(buffer) = MaxLen
  /\ Varied(buffer)
  /\ Varied(enc.keystream.val)
  /\ ~SelfInverse(enc.perm.val)
  /\ EncryptedAsSpecified

\* C3: decrypt_bytes builds inv with inv[pi[i]] = i and returns output with
\* output[pi[i]] = buffer[i] XOR k[i], for pi and k recomputed from n and the
\* passphrase: the XOR is undone before the permutation.
C3_DecryptUndoesXorThenPermutation ==
  pc = "decrypted" =>
    LET n == Len(enc.val)
        pi == PiOf(decKey, n)
        k == KeystreamOf(decKey, n)
        inv == dec.inv_perm.val
    IN /\ dec.exc = ""
       /\ Len(inv) = n
       /\ Len(dec.val) = n
       /\ \A i \in 0..(n - 1) : inv[pi[i + 1] + 1] = i
       /\ \A i \in 0..(n - 1) :
            dec.val[pi[i + 1] + 1] = BitXor(enc.val[i + 1], k[i + 1])

C3_Witness ==
  /\ pc = "decrypted"
  /\ Len(enc.val) = MaxLen
  /\ Varied(enc.val)
  /\ Varied(dec.keystream.val)
  /\ ~SelfInverse(dec.perm.val)
  /\ dec.inv_perm.val # dec.perm.val
  /\ dec.exc = ""

\* C8: decrypting with any passphrase, the encrypting one or another, returns
\* normally a buffer of exactly n values in 0..255.
C8_WrongKeyDecryptsSilently ==
  pc = "decrypted" =>
    /\ dec.exc = ""
    /\ Len(dec.val) = Len(buffer)
    /\ \A i \in 1..Len(dec.val) : dec.val[i] \in 0..255

C8_Witness ==
  /\ pc = "decrypted"
  /\ decKey # encKey
  /\ Len(buffer) = MaxLen
  /\ dec.exc = ""
  /\ dec.val # buffer

\* The calls of generate_permutation and generate_keystream made so far, with
\* the salt and the passphrase of each.
SeedCalls ==
  {c \in {[salt |-> Perm, key |-> encKey, g |-> enc.perm],
          [salt |-> Xor, key |-> encKey, g |-> enc.keystream],
          [salt |-> Perm, key |-> decKey, g |-> dec.perm],
          [salt |-> Xor, key |-> decKey, g |-> dec.keystream]} :
     /\ (c.key = encKey => pc # "input")
     /\ (c.key = decKey /\ c.g \in {dec.perm, dec.keystream} => pc = "decrypted")
     /\ c.g.exc # "not called"}

\* C9 as claimed: the value handed to RandomState is the derived 64-bit seed.
C9_SeedHandedWhole == \A c \in SeedCalls : c.g.arg = c.g.seed

\* C9 as amended: the derived seed is the big-endian value of the first 8
\* digest bytes; the value handed to RandomState is that seed modulo 2^32, the
\* big-endian value of digest bytes 5..8, so it lies in [0, 2^32), and two
\* passphrases whose seeds agree in the low 32 bits get the same permutation.
C9_SeedReducedTo32Bits ==
  /\ \A c \in SeedCalls :
       LET h == Sha256Head[Utf8(c.salt \o c.key)]
       IN /\ c.g.seed = <<h[1] * 256 + h[2], h[3] * 256 + h[4],
                          h[5] * 256 + h[6], h[7] * 256 + h[8]>>
          /\ c.g.arg = <<0, 0, h[5] * 256 + h[6], h[7] * 256 + h[8]>>
          /\ c.g.exc = ""
  /\ (pc = "decrypted" /\ SubSeq(enc.perm.seed, 3, 4) = SubSeq(dec.perm.seed, 3, 4))
       => enc.perm.val = dec.perm.val

C9_Witness ==
  /\ pc = "decrypted"
  /\ Len(buffer) = MaxLen
  /\ encKey = Key_cle31859
  /\ decKey = Key_cle41698
  /\ enc.perm.seed # dec.perm.seed
  /\ enc.perm.arg = dec.perm.arg
  /\ enc.perm.arg # enc.perm.seed
  /\ enc.perm.val = dec.perm.val

\* C10 as claimed: within one encrypt or decrypt call the seed that drives the
\* permutation generator differs from the one that drives the keystream
\* generator.
C10_GeneratorSeedsDiffer ==
  /\ pc # "input" => enc.perm.arg # enc.keystream.arg
  /\ pc = "decrypted" => dec.perm.arg # dec.keystream.arg

\* C10 as amended: for every pair of passphrases the string hashed for the
\* permutation seed differs from the string hashed for the keystream seed, and
\* the two 64-bit values sha256_to_int derives within one call differ.
C10_HashInputsDiffer ==
  /\ pc # "input" =>
       /\ HashInput(encKey, Perm) # HashInput(encKey, Xor)
       /\ enc.perm.seed # enc.keystream.seed
  /\ pc = "decrypted" =>
       /\ HashInput(encKey, Perm) # HashInput(decKey, Xor)
       /\ HashInput(decKey, Perm) # HashInput(encKey, Xor)
       /\ HashInput(decKey, Perm) # HashInput(decKey, Xor)
       /\ dec.perm.seed # dec.keystream.seed

C10_Witness ==
  /\ pc = "decrypted"
  /\ encKey = Key_hkkzkvd
  /\ decKey = Key_hkkzkvd
  /\ enc.perm.seed # enc.keystream.seed
  /\ enc.perm.arg = enc.keystream.arg
  /\ dec.val = given

\* ------------------------------------------------- file-level properties
\* The last call found no image at its input path: the file is missing or
\* holds something else.
InputUnreadable == call.op # "none" /\ imread(fsBefore, call.input).none

\* C7: when the input path is missing or not decodable as an image, the call
\* raises to its caller (the CLI exits non-zero without a confirmation, the
\* GUI shows the error) and the files and directories are as they were
\* before the call: no directory was created, no file written or modified.
C7_UnreadableInputAbortsBeforeOutput ==
  InputUnreadable =>
    /\ call.exc = "FileNotFoundError"
    /\ ~call.wrote
    /\ fs = fsBefore
    /\ dirs = dirsBefore
    /\ call.frontend = "cli" => (stdout = <<>> /\ exitCode = 1)
    /\ call.frontend = "gui" => status_label = "Error: FileNotFoundError"

\* An undecodable input and then a missing one, the second with an output
\* whose directory does not exist yet.
C7_Witness ==
  /\ prevCall.op = "encrypt"
  /\ prevCall.input = Notes_txt
  /\ prevCall.exc = "FileNotFoundError"
  /\ call.op = "decrypt"
  /\ fsBefore[call.input] = Absent
  /\ call.output = Out_enc_png
  /\ call.exc = "FileNotFoundError"
  /\ "out" \notin dirs

\* The last two calls are an encryption of a readable image and a decryption
\* of the encryption's output path with the same key.
EncryptedThenDecrypted ==
  /\ prevCall.op = "encrypt"
  /\ prevCall.exc = ""
  /\ call.op = "decrypt"
  /\ call.input = prevCall.output
  /\ call.key = prevCall.key

\* C4: after encrypt_image_file(input, enc, key) and then
\* decrypt_image_file(enc, dec, key), the file at dec decodes to an array of
\* the original image's shape and dtype, equal to it element for element.
C4_FileRoundTrip ==
  EncryptedThenDecrypted =>
    /\ call.exc = ""
    /\ ~imread(fs, call.output).none
    /\ imread(fs, call.output).dtype = prevCall.dtype
    /\ ShapeOf(imread(fs, call.output).pixels) = ShapeOf(prevCall.img)
    /\ imread(fs, call.output).pixels = prevCall.img

\* C5: whatever the extension of the output path, the file a call wrote is in
\* a lossless format and reading it again gives exactly the bytes handed to
\* save_bytes_as_image.
C5_OutputAlwaysLossless ==
  (call.op # "none" /\ call.wrote) =>
    /\ fs[call.output].fmt = "png"
    /\ flatten(imread(fs, call.output).pixels) = call.flat

\* C6: a call that did not write its output file raised to its caller: the
\* CLI printed no confirmation and exited non-zero, the GUI does not show
\* "completed".
C6_WriteFailureSurfaced ==
  (call.op # "none" /\ ~call.wrote) =>
    /\ call.exc # ""
    /\ call.frontend = "cli" => (stdout = <<>> /\ exitCode # 0)
    /\ call.frontend = "gui" =>
         status_label \notin {"Encryption completed.", "Decryption completed."}

====
